---- MODULE Spec2Model ----
(***************************************************************************)
(* A state-machine model of backend/server.py: the school-management REST  *)
(* backend (FastAPI handlers over a MongoDB document store).               *)
(*                                                                         *)
(* The document store is the only shared state.  Each collection is a      *)
(* sequence of documents in insertion (natural) order.  Every handler     *)
(* is one action, except the two handlers whose several store operations   *)
(* on the same collection are separated by an await and can therefore      *)
(* interleave with other requests: register (find_one, insert_one) and     *)
(* update_student (find_one, update_one, find_one).  The find_one on       *)
(* db.users made by get_current_user is folded into the handler's action:  *)
(* no handler ever modifies or removes a stored user record, so that read  *)
(* commutes with every other request's step.                               *)
(***************************************************************************)
EXTENDS Integers, Sequences, FiniteSets, TLC

VARIABLES
    users,          \* db.users
    students,       \* db.students
    attendance,     \* db.attendance
    grades,         \* db.grades
    announcements,  \* db.announcements
    tokens,         \* bearer tokens handed out by login, each with its issue time
    clock,          \* datetime.now(timezone.utc), in ticks
    nextId,         \* the uuid4 stream: ids already drawn are < nextId
    pc,             \* per request task: the await the task is suspended at
    loc,            \* per request task: the handler's local variables
    ev,             \* the step just taken: the request it belongs to and its response
    jwtBuild,       \* which expiry comparison the installed jwt package makes
    deleted,        \* history: ids for which delete_student has returned success
    created,        \* history: what create_student returned, by id, until touched
    expiredSeen     \* history: tokens for which "Token has expired" was reported

vars == <<users, students, attendance, grades, announcements, tokens, clock,
          nextId, pc, loc, ev, jwtBuild, deleted, created, expiredSeen>>

collections == <<users, students, attendance, grades, announcements>>

(***************************************************************************)
(* Bounds of the model.                                                    *)
(***************************************************************************)
\* user records a behaviour may register
MaxUsers == 3
\* the last id the uuid4 stream may hand out to a student, attendance, grade or
\* announcement record (the users of InitSchool hold ids 1 to 4)
MaxId == 6
\* resolution of the clock: ticks per second (datetime has sub-second digits)
TicksPerSecond == 2
\* tokens a behaviour may hold at once
MaxTokens == 1

(***************************************************************************)
(* Program constants.                                                      *)
(***************************************************************************)
JWT_EXPIRATION_HOURS == 24
SecondsPerHour == 3600
\* to_list(100) in get_announcements
AnnouncementCap == 100

ExpirationTicks == JWT_EXPIRATION_HOURS * SecondsPerHour * TicksPerSecond

(***************************************************************************)
(* Optional[...] values: None is the empty tuple, a present value v is     *)
(* the one-element tuple <<v>>.                                            *)
(***************************************************************************)
None == <<>>
Some(v) == <<v>>

Procs == {1, 2}
Roles == {"admin", "teacher", "student", "parent"}
Usernames == {"alice", "bob"}
Passwords == {"pw"}
FullNames == {"A. Lee"}

Min(S) == CHOOSE x \in S : \A y \in S : x <= y

\* the sequence s without its element at index i
RemoveAt(s, i) == [j \in 1..(Len(s) - 1) |-> IF j < i THEN s[j] ELSE s[j + 1]]

\* the first n elements of s (cursor.to_list(n))
to_list(s, n) == IF Len(s) <= n THEN s ELSE SubSeq(s, 1, n)

Range(s) == {s[i] : i \in DOMAIN s}

(***************************************************************************)
(* Time.  A datetime is a number of ticks since the epoch.  Requests run   *)
(* at the instants of Instants: every tick of the first second, and every  *)
(* tick from one second before to two seconds after one token lifetime     *)
(* later.                                                                  *)
(***************************************************************************)
Instants ==
    (0..(TicksPerSecond - 1))
        \cup {ExpirationTicks + b : b \in (0 - TicksPerSecond)..(2 * TicksPerSecond - 1)}

\* variant: strftime("%Y-%m-%dT%H:%M:%S"), which never prints the fraction
isoformat_seconds(dt) == [sec |-> dt \div TicksPerSecond, frac |-> None]

\* datetime.isoformat(): the fractional part is printed only when it is not zero
isoformat(dt) ==
    IF dt % TicksPerSecond = 0
    THEN [sec |-> dt \div TicksPerSecond, frac |-> None]
    ELSE [sec |-> dt \div TicksPerSecond, frac |-> Some(dt % TicksPerSecond)]

\* datetime.fromisoformat(): a missing fractional part reads as zero
fromisoformat(s) ==
    s.sec * TicksPerSecond + (IF s.frac = None THEN 0 ELSE s.frac[1])

\* calendar.timegm(dt.utctimetuple()): whole seconds, the fraction dropped
timegm(dt) == dt \div TicksPerSecond

(***************************************************************************)
(* Password hasher (passlib bcrypt): a salted digest that verify()         *)
(* recomputes.                                                             *)
(***************************************************************************)
hash_password(password) == [scheme |-> "bcrypt", digest |-> password]

verify_password(plain_password, hashed_password) ==
    hashed_password.digest = plain_password

(***************************************************************************)
(* Token service.  jwt.encode writes a datetime "exp" claim as a           *)
(* NumericDate of whole seconds and signs the payload with JWT_SECRET.     *)
(* A token is the payload plus who signed it.                              *)
(***************************************************************************)
jwt_encode(to_encode) ==
    [sub |-> to_encode.sub, role |-> to_encode.role,
     exp |-> timegm(to_encode.exp), sig |-> "JWT_SECRET"]

\* variant: timedelta(minutes=JWT_EXPIRATION_HOURS) in place of hours
create_access_token_minutes(data) ==
    LET expire == clock + JWT_EXPIRATION_HOURS * 60 * TicksPerSecond
    IN jwt_encode([sub |-> data.sub, role |-> data.role, exp |-> expire])

create_access_token(data) ==
    LET expire == clock + ExpirationTicks
    IN jwt_encode([sub |-> data.sub, role |-> data.role, exp |-> expire])

\* Tokens the server never issued: one signed with another key, and one signed
\* with the server's key (whoever knows JWT_SECRET) that carries no "sub".
ForgedToken == [sub |-> Some(1), role |-> "admin", exp |-> 0, sig |-> "other"]
NoSubToken == [sub |-> None, role |-> "admin",
               exp |-> timegm(3 * ExpirationTicks), sig |-> "JWT_SECRET"]

\* The expiry test of jwt.decode.  The jwt package in the build decides the
\* comparison: against the current time with its fraction, expired once
\* exp <= now ("float_le"), or against the current whole second, expired once
\* exp < now ("int_lt").
JwtBuilds == {"float_le", "int_lt"}
SignatureHasExpired(exp) ==
    IF jwtBuild = "float_le"
    THEN exp * TicksPerSecond <= clock
    ELSE exp < clock \div TicksPerSecond

\* jwt.decode(token, JWT_SECRET, algorithms=[JWT_ALGORITHM]): the signature is
\* verified first, then the exp claim.
jwt_decode(token) ==
    IF token.sig # "JWT_SECRET" THEN "InvalidSignatureError"
    ELSE IF SignatureHasExpired(token.exp) THEN "ExpiredSignatureError"
    ELSE "payload"

(***************************************************************************)
(* Credential store lookups: find_one returns the first match in natural   *)
(* order, or None.                                                         *)
(***************************************************************************)
FindUserByUsername(username) ==
    LET hits == {i \in DOMAIN users : users[i].username = username}
    IN IF hits = {} THEN None ELSE Some(users[Min(hits)])

FindUserById(user_id) ==
    LET hits == {i \in DOMAIN users : Some(users[i].id) = user_id}
    IN IF hits = {} THEN None ELSE Some(users[Min(hits)])

\* User(**doc): extra keys (password) are ignored, created_at is parsed
User(doc) ==
    [id |-> doc.id, username |-> doc.username, role |-> doc.role,
     full_name |-> doc.full_name, email |-> doc.email,
     created_at |-> fromisoformat(doc.created_at)]

(***************************************************************************)
(* Access control guard.  The result is [status, detail, user].            *)
(* An HTTPException raised inside the try block is not an                  *)
(* ExpiredSignatureError, so Python goes on to evaluate the second except  *)
(* clause's expression jwt.JWTError.  Where the installed jwt package has   *)
(* that attribute (hasJWTError) the HTTPException passes through and a     *)
(* decode error becomes the 401 of line 65; where it has not, evaluating   *)
(* it raises AttributeError and the request ends as a 500.                 *)
(***************************************************************************)
Unhandled == [status |-> 500, detail |-> "Internal Server Error", user |-> None]

HTTPExceptionInTry(hasJWTError, status_code, detail) ==
    IF hasJWTError
    THEN [status |-> status_code, detail |-> detail, user |-> None]
    ELSE Unhandled

get_current_user(token, hasJWTError) ==
    LET payload == jwt_decode(token) IN
    IF payload = "ExpiredSignatureError"
    THEN [status |-> 401, detail |-> "Token has expired", user |-> None]
    ELSE IF payload = "InvalidSignatureError"
    THEN HTTPExceptionInTry(hasJWTError, 401, "Could not validate credentials")
    ELSE IF token.sub = None
    THEN HTTPExceptionInTry(hasJWTError, 401, "Invalid authentication credentials")
    ELSE LET user == FindUserById(token.sub) IN
         IF user = None
         THEN HTTPExceptionInTry(hasJWTError, 401, "User not found")
         ELSE [status |-> 200, detail |-> "", user |-> user]

\* what a client can put in the Authorization header
Issued == {t.token : t \in tokens}
Presentable == Issued \cup {ForgedToken, NoSubToken}

\* the builds to tell apart for a token: both when the guard's answer depends
\* on whether jwt.JWTError exists, one when it does not
JWTErrorChoices(token) ==
    IF get_current_user(token, TRUE) = get_current_user(token, FALSE)
    THEN {TRUE} ELSE BOOLEAN

(***************************************************************************)
(* The step just taken.  Every action sets ev: the handler (op), which of  *)
(* its steps ran (step: "call" is the handler's first step), who called,   *)
(* and the response, if the step ended the request (status is 0 while the  *)
(* request is still running).                                              *)
(***************************************************************************)
Event(op, step, auth, status, detail, arg, body) ==
    [op |-> op, step |-> step, token |-> auth.token, caller |-> auth.user,
     status |-> status, detail |-> detail, arg |-> arg, body |-> body]

NoAuth == [token |-> None, user |-> None]
Authed(token, res) == [token |-> Some(token), user |-> res.user]

\* the response of a request that get_current_user rejected
AuthFailure(op, token, res, arg) ==
    Event(op, "call", Authed(token, res), res.status, res.detail, arg, None)

(***************************************************************************)
(* Request inputs.                                                         *)
(***************************************************************************)
UserCreateInputs ==
    [username : Usernames, password : Passwords, role : Roles,
     full_name : FullNames, email : {None}]

UserLoginInputs == [username : Usernames, password : Passwords \cup {"wrong"}]


(***************************************************************************)
(* POST /auth/register, up to the await of find_one (lines 173-177).       *)
(***************************************************************************)
register_lookup(p, user_data) ==
    /\ pc[p] = "idle"
    /\ LET existing_user == FindUserByUsername(user_data.username) IN
       IF existing_user # None
       THEN /\ ev' = Event("register", "call", NoAuth, 400,
                           "Username already exists", user_data, None)
            /\ UNCHANGED <<pc, loc>>
       ELSE /\ pc' = [pc EXCEPT ![p] = "register_insert"]
            /\ loc' = [loc EXCEPT ![p] = user_data]
            /\ ev' = Event("register", "call", NoAuth, 0, "", user_data, None)
    /\ UNCHANGED <<users, students, attendance, grades, announcements, tokens,
                   clock, nextId, jwtBuild, deleted, created, expiredSeen>>

(***************************************************************************)
(* POST /auth/register, after the find_one (lines 179-189): the user       *)
(* object gets its uuid4 and created_at here, and is inserted.             *)
(***************************************************************************)
register_insert(p) ==
    /\ pc[p] = "register_insert"
    /\ Len(users) < MaxUsers
    /\ LET user_data == loc[p]
           hashed_password == hash_password(user_data.password)
           user_obj == [id |-> nextId, username |-> user_data.username,
                        role |-> user_data.role, full_name |-> user_data.full_name,
                        email |-> user_data.email, created_at |-> clock]
           doc == [id |-> user_obj.id, username |-> user_obj.username,
                   role |-> user_obj.role, full_name |-> user_obj.full_name,
                   email |-> user_obj.email,
                   created_at |-> isoformat(user_obj.created_at),
                   password |-> hashed_password]
       IN /\ users' = Append(users, doc)
          /\ ev' = Event("register", "insert", NoAuth, 200, "", user_data, user_obj)
    /\ nextId' = nextId + 1
    /\ pc' = [pc EXCEPT ![p] = "idle"]
    /\ loc' = [loc EXCEPT ![p] = None]
    /\ UNCHANGED <<students, attendance, grades, announcements, tokens, clock,
                   jwtBuild, deleted, created, expiredSeen>>

(***************************************************************************)
(* POST /auth/login (lines 192-204).                                       *)
(***************************************************************************)
login(login_data) ==
    /\ LET user == FindUserByUsername(login_data.username) IN
       IF user = None \/ ~verify_password(login_data.password, user[1].password)
       THEN /\ ev' = Event("login", "call", NoAuth, 401,
                           "Invalid username or password", login_data, None)
            /\ UNCHANGED tokens
       ELSE LET access_token ==
                    create_access_token([sub |-> Some(user[1].id),
                                         role |-> user[1].role])
            IN /\ Cardinality(tokens \cup {[token |-> access_token, iat |-> clock]})
                      <= MaxTokens
               /\ tokens' = tokens \cup {[token |-> access_token, iat |-> clock]}
               /\ ev' = Event("login", "call", NoAuth, 200, "", login_data,
                              [access_token |-> access_token, token_type |-> "bearer",
                               user |-> User(user[1])])
    /\ UNCHANGED <<users, students, attendance, grades, announcements, clock,
                   nextId, pc, loc, jwtBuild, deleted, created, expiredSeen>>

(***************************************************************************)
(* GET /auth/me (lines 206-208).                                           *)
(***************************************************************************)
get_me(token, hasJWTError) ==
    /\ LET res == get_current_user(token, hasJWTError) IN
       /\ ev' = IF res.status # 200
                THEN AuthFailure("get_me", token, res, None)
                ELSE Event("get_me", "call", Authed(token, res), 200, "", None,
                           User(res.user[1]))
       /\ expiredSeen' = IF res.detail = "Token has expired"
                         THEN expiredSeen \cup {token} ELSE expiredSeen
    /\ UNCHANGED <<users, students, attendance, grades, announcements, tokens,
                   clock, nextId, pc, loc, jwtBuild, deleted, created>>

(***************************************************************************)
(* Time passes between requests.                                           *)
(***************************************************************************)
Tick ==
    /\ \E t \in Instants : t > clock /\ clock' = t
    /\ ev' = Event("tick", "call", NoAuth, 0, "", None, None)
    /\ UNCHANGED <<users, students, attendance, grades, announcements, tokens,
                   nextId, pc, loc, jwtBuild, deleted, created, expiredSeen>>

(***************************************************************************)
(* A user record is removed from db.users.  No handler does this; the      *)
(* record is removed by tooling outside the backend.                       *)
(***************************************************************************)
RemoveUser(i) ==
    /\ i \in DOMAIN users
    /\ users' = RemoveAt(users, i)
    /\ ev' = Event("remove_user", "call", NoAuth, 0, "", users[i].id, None)
    /\ UNCHANGED <<students, attendance, grades, announcements, tokens, clock,
                   nextId, pc, loc, jwtBuild, deleted, created, expiredSeen>>

(***************************************************************************)
(* The state after construction: an empty store, no request in flight.     *)
(***************************************************************************)
Init ==
    /\ users = <<>>
    /\ students = <<>>
    /\ attendance = <<>>
    /\ grades = <<>>
    /\ announcements = <<>>
    /\ tokens = {}
    /\ clock = 0
    /\ nextId = 1
    /\ pc = [p \in Procs |-> "idle"]
    /\ loc = [p \in Procs |-> None]
    /\ ev = Event("init", "call", NoAuth, 0, "", None, None)
    /\ jwtBuild \in JwtBuilds
    /\ deleted = {}
    /\ created = {}
    /\ expiredSeen = {}

(***************************************************************************)
(* Students.                                                               *)
(***************************************************************************)
StudentCreateInputs ==
    { [full_name |-> "Ann", roll_number |-> "7", class_name |-> "5",
       section |-> "A", parent_id |-> None, date_of_birth |-> None,
       address |-> None, phone |-> None],
      [full_name |-> "Bea", roll_number |-> "8", class_name |-> "5",
       section |-> "B", parent_id |-> Some(4), date_of_birth |-> Some("2015-03-01"),
       address |-> Some("1 Elm St"), phone |-> Some("555") ] }

\* Student(**doc): created_at is parsed when it is a string
Student(doc) ==
    [id |-> doc.id, user_id |-> doc.user_id, full_name |-> doc.full_name,
     roll_number |-> doc.roll_number, class_name |-> doc.class_name,
     section |-> doc.section, parent_id |-> doc.parent_id,
     date_of_birth |-> doc.date_of_birth, address |-> doc.address,
     phone |-> doc.phone, created_at |-> fromisoformat(doc.created_at)]

\* db.students.find_one({"id": student_id})
FindStudentById(student_id) ==
    LET hits == {i \in DOMAIN students : students[i].id = student_id}
    IN IF hits = {} THEN None ELSE Some(students[Min(hits)])

\* db.students.update_one({"id": student_id}, {"$set": update_data}): the first
\* matching document gets the fields of update_data; no match, no change.
update_one(coll, student_id, update_data) ==
    LET hits == {i \in DOMAIN coll : coll[i].id = student_id}
    IN IF hits = {} THEN coll
       ELSE [coll EXCEPT ![Min(hits)] =
                [f \in DOMAIN @ |->
                    IF f \in DOMAIN update_data THEN update_data[f] ELSE @[f]]]

\* variant: a soft delete that reports the match and keeps the document
delete_one_soft(coll, student_id) == coll

\* db.students.delete_one({"id": student_id}): the first matching document goes
delete_one(coll, student_id) ==
    LET hits == {i \in DOMAIN coll : coll[i].id = student_id}
    IN IF hits = {} THEN coll ELSE RemoveAt(coll, Min(hits))

deleted_count(coll, student_id) ==
    IF \E i \in DOMAIN coll : coll[i].id = student_id THEN 1 ELSE 0

\* variant: the role test also lets student-role callers through
IsStaff_student(current_user) == current_user.role \in {"admin", "teacher", "student"}

\* the role test of the mutating handlers (lines 213, 242, 270, 297, 322)
IsStaff(current_user) == current_user.role \in {"admin", "teacher"}

\* variant: delete_student guarded like the other mutating handlers
IsAdmin_staff(current_user) == current_user.role \in {"admin", "teacher"}

\* the role test of delete_student (line 259)
IsAdmin(current_user) == current_user.role = "admin"

Forbidden(op, token, res, arg) ==
    Event(op, "call", Authed(token, res), 403, "Not authorized", arg, None)

\* ids a request may name: one that is no record's id, and every id the uuid4
\* stream can hand out to a record
StudentIds == {0} \cup (5..MaxId)

\* the history of what create_student returned, without the entry of student_id
Untouched(student_id) == {c \in created : c.id # student_id}

(***************************************************************************)
(* POST /students (lines 212-221).                                         *)
(***************************************************************************)
create_student(token, hasJWTError, student_data) ==
    LET res == get_current_user(token, hasJWTError) IN
    /\ IF res.status # 200
       THEN /\ ev' = AuthFailure("create_student", token, res, None)
            /\ UNCHANGED <<students, nextId, created>>
       ELSE IF ~IsStaff(res.user[1])
       THEN /\ ev' = Forbidden("create_student", token, res, student_data)
            /\ UNCHANGED <<students, nextId, created>>
       ELSE /\ nextId <= MaxId
            /\ LET student_obj ==
                       [id |-> nextId, user_id |-> res.user[1].id,
                        full_name |-> student_data.full_name,
                        roll_number |-> student_data.roll_number,
                        class_name |-> student_data.class_name,
                        section |-> student_data.section,
                        parent_id |-> student_data.parent_id,
                        date_of_birth |-> student_data.date_of_birth,
                        address |-> student_data.address,
                        phone |-> student_data.phone,
                        created_at |-> clock]
                   doc == [student_obj EXCEPT
                              !.created_at = isoformat(student_obj.created_at)]
               IN /\ students' = Append(students, doc)
                  /\ ev' = Event("create_student", "call", Authed(token, res),
                                 200, "", student_data, student_obj)
                  /\ created' = created \cup {student_obj}
            /\ nextId' = nextId + 1
    /\ UNCHANGED <<users, attendance, grades, announcements, tokens, clock, pc,
                   loc, jwtBuild, deleted, expiredSeen>>

(***************************************************************************)
(* GET /students/{student_id} (lines 232-238).                             *)
(***************************************************************************)
get_student(token, hasJWTError, student_id) ==
    LET res == get_current_user(token, hasJWTError)
        student == FindStudentById(student_id) IN
    /\ ev' = IF res.status # 200
             THEN AuthFailure("get_student", token, res, None)
             ELSE IF student = None
             THEN Event("get_student", "call", Authed(token, res), 404,
                        "Student not found", student_id, None)
             ELSE Event("get_student", "call", Authed(token, res), 200, "",
                        student_id, Student(student[1]))
    /\ UNCHANGED <<users, students, attendance, grades, announcements, tokens,
                   clock, nextId, pc, loc, jwtBuild, deleted, created, expiredSeen>>

(***************************************************************************)
(* PUT /students/{student_id}, up to the await of the first find_one       *)
(* (lines 241-247).                                                        *)
(***************************************************************************)
update_student_lookup(p, token, hasJWTError, student_id, student_data) ==
    LET res == get_current_user(token, hasJWTError)
        existing == FindStudentById(student_id) IN
    /\ pc[p] = "idle"
    /\ IF res.status # 200
       THEN /\ ev' = AuthFailure("update_student", token, res, None)
            /\ UNCHANGED <<pc, loc>>
       ELSE IF ~IsStaff(res.user[1])
       THEN /\ ev' = Forbidden("update_student", token, res, student_id)
            /\ UNCHANGED <<pc, loc>>
       ELSE IF existing = None
       THEN /\ ev' = Event("update_student", "call", Authed(token, res), 404,
                           "Student not found", student_id, None)
            /\ UNCHANGED <<pc, loc>>
       ELSE /\ pc' = [pc EXCEPT ![p] = "update_student_write"]
            /\ loc' = [loc EXCEPT ![p] =
                          [auth |-> Authed(token, res), student_id |-> student_id,
                           update_data |-> student_data]]
            /\ ev' = Event("update_student", "call", Authed(token, res), 0, "",
                           student_id, None)
    /\ UNCHANGED <<users, students, attendance, grades, announcements, tokens,
                   clock, nextId, jwtBuild, deleted, created, expiredSeen>>

\* variant: the update also refreshes student_name in the attendance records
update_student_write_cascade(p) ==
    /\ pc[p] = "update_student_write"
    /\ students' = update_one(students, loc[p].student_id, loc[p].update_data)
    /\ attendance' = [i \in DOMAIN attendance |->
                         IF attendance[i].student_id = loc[p].student_id
                         THEN [attendance[i] EXCEPT
                                  !.student_name = loc[p].update_data.full_name]
                         ELSE attendance[i]]
    /\ created' = Untouched(loc[p].student_id)
    /\ pc' = [pc EXCEPT ![p] = "update_student_reread"]
    /\ ev' = Event("update_student", "write", loc[p].auth, 0, "",
                   loc[p].student_id, None)
    /\ UNCHANGED <<users, grades, announcements, tokens, clock,
                   nextId, loc, jwtBuild, deleted, expiredSeen>>

(***************************************************************************)
(* PUT /students/{student_id}: the update_one (lines 249-250).             *)
(***************************************************************************)
update_student_write(p) ==
    /\ pc[p] = "update_student_write"
    /\ students' = update_one(students, loc[p].student_id, loc[p].update_data)
    /\ created' = Untouched(loc[p].student_id)
    /\ pc' = [pc EXCEPT ![p] = "update_student_reread"]
    /\ ev' = Event("update_student", "write", loc[p].auth, 0, "",
                   loc[p].student_id, None)
    /\ UNCHANGED <<users, attendance, grades, announcements, tokens, clock,
                   nextId, loc, jwtBuild, deleted, expiredSeen>>

(***************************************************************************)
(* PUT /students/{student_id}: the second find_one and the response        *)
(* (lines 252-255).  When the document is gone, updated_student is None    *)
(* and updated_student.get raises AttributeError: the request ends as a    *)
(* 500.                                                                    *)
(***************************************************************************)
update_student_reread(p) ==
    LET updated_student == FindStudentById(loc[p].student_id) IN
    /\ pc[p] = "update_student_reread"
    /\ ev' = IF updated_student = None
             THEN Event("update_student", "reread", loc[p].auth, 500,
                        "Internal Server Error", loc[p].student_id, None)
             ELSE Event("update_student", "reread", loc[p].auth, 200, "",
                        loc[p].student_id, Student(updated_student[1]))
    /\ pc' = [pc EXCEPT ![p] = "idle"]
    /\ loc' = [loc EXCEPT ![p] = None]
    /\ UNCHANGED <<users, students, attendance, grades, announcements, tokens,
                   clock, nextId, jwtBuild, deleted, created, expiredSeen>>

(***************************************************************************)
(* DELETE /students/{student_id} (lines 258-265).                          *)
(***************************************************************************)
delete_student(token, hasJWTError, student_id) ==
    LET res == get_current_user(token, hasJWTError) IN
    /\ IF res.status # 200
       THEN /\ ev' = AuthFailure("delete_student", token, res, None)
            /\ UNCHANGED <<students, deleted, created>>
       ELSE IF ~IsAdmin(res.user[1])
       THEN /\ ev' = Forbidden("delete_student", token, res, student_id)
            /\ UNCHANGED <<students, deleted, created>>
       ELSE /\ students' = delete_one(students, student_id)
            /\ IF deleted_count(students, student_id) = 0
               THEN /\ ev' = Event("delete_student", "call", Authed(token, res),
                                   404, "Student not found", student_id, None)
                    /\ UNCHANGED <<deleted, created>>
               ELSE /\ ev' = Event("delete_student", "call", Authed(token, res),
                                   200, "", student_id,
                                   [message |-> "Student deleted successfully"])
                    /\ deleted' = deleted \cup {student_id}
                    /\ created' = Untouched(student_id)
    /\ UNCHANGED <<users, attendance, grades, announcements, tokens, clock,
                   nextId, pc, loc, jwtBuild, expiredSeen>>

(***************************************************************************)
(* Attendance.  A date string "%Y-%m-%d" is the number of its day.         *)
(***************************************************************************)
AttendanceCreateInputs ==
    { [student_id |-> 5, student_name |-> "Ann", date |-> 0,
       status |-> "present", subject |-> None],
      [student_id |-> 6, student_name |-> "Bea", date |-> 1,
       status |-> "absent", subject |-> Some("math")] }

(***************************************************************************)
(* POST /attendance (lines 269-278).                                       *)
(***************************************************************************)
mark_attendance(token, hasJWTError, attendance_data) ==
    LET res == get_current_user(token, hasJWTError) IN
    /\ IF res.status # 200
       THEN /\ ev' = AuthFailure("mark_attendance", token, res, None)
            /\ UNCHANGED <<attendance, nextId>>
       ELSE IF ~IsStaff(res.user[1])
       THEN /\ ev' = Forbidden("mark_attendance", token, res, None)
            /\ UNCHANGED <<attendance, nextId>>
       ELSE /\ nextId <= MaxId
            /\ LET attendance_obj ==
                       [id |-> nextId,
                        student_id |-> attendance_data.student_id,
                        student_name |-> attendance_data.student_name,
                        date |-> attendance_data.date,
                        status |-> attendance_data.status,
                        subject |-> attendance_data.subject,
                        marked_by |-> res.user[1].id,
                        created_at |-> clock]
                   doc == [attendance_obj EXCEPT
                              !.created_at = isoformat(attendance_obj.created_at)]
               IN /\ attendance' = Append(attendance, doc)
                  /\ ev' = Event("mark_attendance", "call", Authed(token, res),
                                 200, "", None, attendance_obj)
            /\ nextId' = nextId + 1
    /\ UNCHANGED <<users, students, grades, announcements, tokens, clock, pc,
                   loc, jwtBuild, deleted, created, expiredSeen>>

(***************************************************************************)
(* Grades.                                                                 *)
(***************************************************************************)
GradeCreateInputs ==
    { [student_id |-> 5, student_name |-> "Ann", subject |-> "math",
       exam_type |-> "final", marks |-> 11, max_marks |-> 10, date |-> 0] }

(***************************************************************************)
(* POST /grades (lines 296-305).                                           *)
(***************************************************************************)
add_grade(token, hasJWTError, grade_data) ==
    LET res == get_current_user(token, hasJWTError) IN
    /\ IF res.status # 200
       THEN /\ ev' = AuthFailure("add_grade", token, res, None)
            /\ UNCHANGED <<grades, nextId>>
       ELSE IF ~IsStaff(res.user[1])
       THEN /\ ev' = Forbidden("add_grade", token, res, None)
            /\ UNCHANGED <<grades, nextId>>
       ELSE /\ nextId <= MaxId
            /\ LET grade_obj ==
                       [id |-> nextId,
                        student_id |-> grade_data.student_id,
                        student_name |-> grade_data.student_name,
                        subject |-> grade_data.subject,
                        exam_type |-> grade_data.exam_type,
                        marks |-> grade_data.marks,
                        max_marks |-> grade_data.max_marks,
                        date |-> grade_data.date,
                        teacher_id |-> res.user[1].id,
                        created_at |-> clock]
                   doc == [grade_obj EXCEPT
                              !.created_at = isoformat(grade_obj.created_at)]
               IN /\ grades' = Append(grades, doc)
                  /\ ev' = Event("add_grade", "call", Authed(token, res), 200, "",
                                 None, grade_obj)
            /\ nextId' = nextId + 1
    /\ UNCHANGED <<users, students, attendance, announcements, tokens, clock, pc,
                   loc, jwtBuild, deleted, created, expiredSeen>>

(***************************************************************************)
(* Announcements.                                                          *)
(***************************************************************************)
AnnouncementCreateInputs ==
    [title : {"Hello"}, content : {"..."},
     target_role : {None, Some("teacher"), Some("parent"), Some("student")}]

\* Announcement(**doc)
Announcement(doc) == [doc EXCEPT !.created_at = fromisoformat(doc.created_at)]

(***************************************************************************)
(* POST /announcements (lines 321-330).                                    *)
(***************************************************************************)
create_announcement(token, hasJWTError, announcement_data) ==
    LET res == get_current_user(token, hasJWTError) IN
    /\ IF res.status # 200
       THEN /\ ev' = AuthFailure("create_announcement", token, res, None)
            /\ UNCHANGED <<announcements, nextId>>
       ELSE IF ~IsStaff(res.user[1])
       THEN /\ ev' = Forbidden("create_announcement", token, res, None)
            /\ UNCHANGED <<announcements, nextId>>
       ELSE /\ nextId <= MaxId
            /\ LET announcement_obj ==
                       [id |-> nextId,
                        title |-> announcement_data.title,
                        content |-> announcement_data.content,
                        author |-> res.user[1].full_name,
                        target_role |-> announcement_data.target_role,
                        created_at |-> clock]
                   doc == [announcement_obj EXCEPT
                              !.created_at = isoformat(announcement_obj.created_at)]
               IN /\ announcements' = Append(announcements, doc)
                  /\ ev' = Event("create_announcement", "call", Authed(token, res),
                                 200, "", None, announcement_obj)
            /\ nextId' = nextId + 1
    /\ UNCHANGED <<users, students, attendance, grades, tokens, clock, pc, loc,
                   jwtBuild, deleted, created, expiredSeen>>

\* cursor over the documents of coll whose index is in keep, in natural order
RECURSIVE Select(_, _)
Select(coll, keep) ==
    IF coll = <<>> THEN <<>>
    ELSE LET rest == Select(SubSeq(coll, 1, Len(coll) - 1), keep)
         IN IF Len(coll) \in keep THEN Append(rest, coll[Len(coll)]) ELSE rest

\* variant: the query without its {"target_role": None} branch
AnnouncementQuery_own(current_user, doc) ==
    current_user.role # "admin" => doc.target_role = Some(current_user.role)

\* the query of get_announcements (lines 334-339): nothing for an admin, else
\* {"$or": [{"target_role": None}, {"target_role": role}]}
AnnouncementQuery(current_user, doc) ==
    current_user.role # "admin" =>
        (doc.target_role = None \/ doc.target_role = Some(current_user.role))

\* .sort("created_at", -1): newest first by the stored ISO string, which orders
\* as the time it prints; equal keys keep their natural order.
RECURSIVE SortNewestFirst(_)
SortNewestFirst(coll) ==
    IF coll = <<>> THEN <<>>
    ELSE LET key(i) == fromisoformat(coll[i].created_at)
             first == Min({i \in DOMAIN coll : \A j \in DOMAIN coll : key(j) <= key(i)})
         IN <<coll[first]>> \o SortNewestFirst(RemoveAt(coll, first))

(***************************************************************************)
(* GET /announcements (lines 333-345).                                     *)
(***************************************************************************)
get_announcements(token, hasJWTError) ==
    LET res == get_current_user(token, hasJWTError) IN
    /\ ev' = IF res.status # 200
             THEN AuthFailure("get_announcements", token, res, None)
             ELSE LET keep == {i \in DOMAIN announcements :
                                  AnnouncementQuery(res.user[1], announcements[i])}
                      found == to_list(SortNewestFirst(Select(announcements, keep)),
                                       AnnouncementCap)
                  IN Event("get_announcements", "call", Authed(token, res), 200, "",
                           None, [i \in DOMAIN found |-> Announcement(found[i])])
    /\ UNCHANGED <<users, students, attendance, grades, announcements, tokens,
                   clock, nextId, pc, loc, jwtBuild, deleted, created, expiredSeen>>

(***************************************************************************)
(* GET /dashboard/stats (lines 349-384).  The stats dict is the set of     *)
(* its <<key, value>> pairs.  The counts are separate reads of the store;  *)
(* they are taken here in one step.                                        *)
(***************************************************************************)
HoursPerDay == 24
Today == clock \div (HoursPerDay * SecondsPerHour * TicksPerSecond)

\* count_documents(query): how many documents of coll match
count_documents(coll, matching) == Cardinality({i \in DOMAIN coll : coll[i] \in matching})

dashboard_stats(current_user) ==
    IF current_user.role = "admin" THEN
        { <<"total_students", Len(students)>>,
          <<"total_teachers",
            count_documents(users, {u \in Range(users) : u.role = "teacher"})>>,
          <<"total_parents",
            count_documents(users, {u \in Range(users) : u.role = "parent"})>>,
          <<"total_announcements", Len(announcements)>>,
          <<"today_present",
            count_documents(attendance, {a \in Range(attendance) :
                                            a.date = Today /\ a.status = "present"})>>,
          <<"today_absent",
            count_documents(attendance, {a \in Range(attendance) :
                                            a.date = Today /\ a.status = "absent"})>> }
    ELSE IF current_user.role = "teacher" THEN
        { <<"total_students", Len(students)>>,
          <<"classes_today", 5>>, <<"pending_grades", 12>> }
    ELSE IF current_user.role = "student" THEN
        LET hits == {i \in DOMAIN students : students[i].user_id = current_user.id}
        IN IF hits = {} THEN {}
           ELSE LET student == students[Min(hits)] IN
                { <<"total_attendance",
                    count_documents(attendance, {a \in Range(attendance) :
                                                    a.student_id = student.id})>>,
                  <<"present_days",
                    count_documents(attendance, {a \in Range(attendance) :
                                                    a.student_id = student.id
                                                    /\ a.status = "present"})>>,
                  <<"total_grades",
                    count_documents(grades, {g \in Range(grades) :
                                                g.student_id = student.id})>> }
    ELSE IF current_user.role = "parent" THEN
        { <<"children_count",
            count_documents(students, {s \in Range(students) :
                                          s.parent_id = Some(current_user.id)})>>,
          <<"announcements_count",
            count_documents(announcements, {a \in Range(announcements) :
                                               a.target_role = None
                                               \/ a.target_role = Some("parent")})>>,
          <<"events_count", 3>> }
    ELSE {}

get_dashboard_stats(token, hasJWTError) ==
    LET res == get_current_user(token, hasJWTError) IN
    /\ ev' = IF res.status # 200
             THEN AuthFailure("get_dashboard_stats", token, res, None)
             ELSE Event("get_dashboard_stats", "call", Authed(token, res), 200, "",
                        None, dashboard_stats(res.user[1]))
    /\ UNCHANGED <<users, students, attendance, grades, announcements, tokens,
                   clock, nextId, pc, loc, jwtBuild, deleted, created, expiredSeen>>

\* the document register stores for user_data, given its uuid4 and its time
UserDoc(id, now, user_data) ==
    [id |-> id, username |-> user_data.username, role |-> user_data.role,
     full_name |-> user_data.full_name, email |-> user_data.email,
     created_at |-> isoformat(now), password |-> hash_password(user_data.password)]

(***************************************************************************)
(* Registration: concurrent register requests.                             *)
(***************************************************************************)
NextRegister ==
    \/ \E p \in Procs : \E user_data \in UserCreateInputs : register_lookup(p, user_data)
    \/ \E p \in Procs : register_insert(p)

SpecRegister == Init /\ [][NextRegister]_vars

(***************************************************************************)
(* Authentication: login, GET /auth/me, the passing of time and the        *)
(* removal of user records, from a store in which alice (an admin) and bob *)
(* (a student) have registered.                                            *)
(***************************************************************************)
InitAuth ==
    /\ users = << UserDoc(1, 0, [username |-> "alice", password |-> "pw",
                                 role |-> "admin", full_name |-> "A. Lee",
                                 email |-> None]),
                  UserDoc(2, 0, [username |-> "bob", password |-> "pw",
                                 role |-> "student", full_name |-> "A. Lee",
                                 email |-> None]) >>
    /\ students = <<>>
    /\ attendance = <<>>
    /\ grades = <<>>
    /\ announcements = <<>>
    /\ tokens = {}
    /\ clock = 0
    /\ nextId = 3
    /\ pc = [p \in Procs |-> "idle"]
    /\ loc = [p \in Procs |-> None]
    /\ ev = Event("init", "call", NoAuth, 0, "", None, None)
    /\ jwtBuild \in JwtBuilds
    /\ deleted = {}
    /\ created = {}
    /\ expiredSeen = {}

NextAuth ==
    \/ \E login_data \in UserLoginInputs : login(login_data)
    \/ \E token \in Presentable : \E hasJWTError \in BOOLEAN : get_me(token, hasJWTError)
    \/ Tick
    \/ \E i \in DOMAIN users : RemoveUser(i)

SpecAuth == InitAuth /\ [][NextAuth]_vars

(***************************************************************************)
(* The school in session: an admin, a teacher, a student and a parent have *)
(* registered (ids 1 to 4) and logged in at time 0, and the requests run   *)
(* at time now.  The session's tokens are a day from their expiry, where   *)
(* the expiry tests of both jwt builds agree: one build is explored.       *)
(***************************************************************************)
SchoolUser(id, username, role) ==
    UserDoc(id, 0, [username |-> username, password |-> "pw", role |-> role,
                    full_name |-> "A. Lee", email |-> None])

SchoolToken(id, role) ==
    [token |-> jwt_encode([sub |-> Some(id), role |-> role, exp |-> ExpirationTicks]),
     iat |-> 0]

School(now) ==
    /\ users = << SchoolUser(1, "alice", "admin"), SchoolUser(2, "bob", "teacher"),
                  SchoolUser(3, "carol", "student"), SchoolUser(4, "dave", "parent") >>
    /\ students = <<>>
    /\ attendance = <<>>
    /\ grades = <<>>
    /\ announcements = <<>>
    /\ tokens = { SchoolToken(1, "admin"), SchoolToken(2, "teacher"),
                  SchoolToken(3, "student"), SchoolToken(4, "parent") }
    /\ clock = now
    /\ nextId = 5
    /\ pc = [p \in Procs |-> "idle"]
    /\ loc = [p \in Procs |-> None]
    /\ ev = Event("init", "call", NoAuth, 0, "", None, None)
    /\ jwtBuild = "float_le"
    /\ deleted = {}
    /\ created = {}
    /\ expiredSeen = {}

\* no update_student is between two of its store operations
Quiet == \A p \in Procs : pc[p] = "idle"

(***************************************************************************)
(* Student records: create, read, update and delete requests from the     *)
(* admin and the teacher, on a whole second (tick 0) or                    *)
(* between two (tick 1), interleaved with the steps of an update_student.  *)
(* A request that leaves db.students as it is commutes with the steps of   *)
(* the update in flight, and is taken only when none is.                   *)
(***************************************************************************)
InitStudents == \E now \in {0, 1} : School(now)

StudentsCallers == {token \in Issued : token.role \in {"admin", "teacher"}}

StudentsCreate ==
    \E token \in StudentsCallers : \E hasJWTError \in JWTErrorChoices(token) :
    \E student_data \in StudentCreateInputs :
        /\ create_student(token, hasJWTError, student_data)
        /\ Quiet \/ students' # students

StudentsGet ==
    \E token \in StudentsCallers : \E hasJWTError \in JWTErrorChoices(token) :
    \E student_id \in StudentIds :
        /\ Quiet
        /\ get_student(token, hasJWTError, student_id)

StudentsUpdate ==
    \E token \in StudentsCallers : \E hasJWTError \in JWTErrorChoices(token) :
    \E student_id \in StudentIds : \E student_data \in StudentCreateInputs :
        update_student_lookup(1, token, hasJWTError, student_id, student_data)

StudentsDelete ==
    \E token \in StudentsCallers : \E hasJWTError \in JWTErrorChoices(token) :
    \E student_id \in StudentIds :
        /\ delete_student(token, hasJWTError, student_id)
        /\ Quiet \/ students' # students

NextStudents ==
    \/ StudentsCreate
    \/ StudentsGet
    \/ StudentsUpdate
    \/ update_student_write(1)
    \/ update_student_reread(1)
    \/ StudentsDelete

SpecStudents == InitStudents /\ [][NextStudents]_vars

(***************************************************************************)
(* Every mutating handler, and the dashboard for every logged-in user.     *)
(* Requests are served one at a time: a request starts when no             *)
(* update_student is between two of its store operations.                  *)
(***************************************************************************)
InitSchool == School(1)

SchoolStudentInputs == {f \in StudentCreateInputs : f.full_name = "Ann"}
SchoolUpdateInputs == {f \in StudentCreateInputs : f.full_name = "Bea"}
SchoolAttendanceInputs == {a \in AttendanceCreateInputs : a.student_id = 5}
SchoolAnnouncementInputs == {a \in AnnouncementCreateInputs : a.target_role = None}

\* callers of the student handlers: inside both allow-lists, inside one, inside none
SchoolCallers == {token \in Issued : token.role \in {"admin", "teacher", "student"}}
\* callers of the attendance, grade and announcement handlers: one allowed, one not
RecordCallers == {token \in Issued : token.role \in {"teacher", "student"}}

SchoolCreateStudent ==
    \E token \in SchoolCallers : \E hasJWTError \in JWTErrorChoices(token) :
    \E student_data \in SchoolStudentInputs :
        Quiet /\ create_student(token, hasJWTError, student_data)

SchoolUpdateStudent ==
    \E token \in SchoolCallers : \E hasJWTError \in JWTErrorChoices(token) :
    \E student_id \in StudentIds : \E student_data \in SchoolUpdateInputs :
        update_student_lookup(1, token, hasJWTError, student_id, student_data)

SchoolDeleteStudent ==
    \E token \in SchoolCallers : \E hasJWTError \in JWTErrorChoices(token) :
    \E student_id \in StudentIds :
        Quiet /\ delete_student(token, hasJWTError, student_id)

SchoolMarkAttendance ==
    \E token \in RecordCallers : \E hasJWTError \in JWTErrorChoices(token) :
    \E attendance_data \in SchoolAttendanceInputs :
        Quiet /\ mark_attendance(token, hasJWTError, attendance_data)

SchoolAddGrade ==
    \E token \in RecordCallers : \E hasJWTError \in JWTErrorChoices(token) :
    \E grade_data \in GradeCreateInputs :
        Quiet /\ add_grade(token, hasJWTError, grade_data)

SchoolCreateAnnouncement ==
    \E token \in RecordCallers : \E hasJWTError \in JWTErrorChoices(token) :
    \E announcement_data \in SchoolAnnouncementInputs :
        Quiet /\ create_announcement(token, hasJWTError, announcement_data)

SchoolDashboard ==
    \E token \in Issued : \E hasJWTError \in JWTErrorChoices(token) :
        Quiet /\ get_dashboard_stats(token, hasJWTError)

NextSchool ==
    \/ SchoolCreateStudent
    \/ SchoolUpdateStudent
    \/ update_student_write(1)
    \/ update_student_reread(1)
    \/ SchoolDeleteStudent
    \/ SchoolMarkAttendance
    \/ SchoolAddGrade
    \/ SchoolCreateAnnouncement
    \/ SchoolDashboard

Spec == InitSchool /\ [][NextSchool]_vars

(***************************************************************************)
(* Announcements: posting and listing, by every logged-in user.            *)
(***************************************************************************)
AnnouncementsCreate ==
    \E token \in Issued : \E hasJWTError \in JWTErrorChoices(token) :
    \E announcement_data \in AnnouncementCreateInputs :
        create_announcement(token, hasJWTError, announcement_data)

AnnouncementsGet ==
    \E token \in Issued : \E hasJWTError \in JWTErrorChoices(token) :
        get_announcements(token, hasJWTError)

NextAnnouncements ==
    \/ AnnouncementsCreate
    \/ AnnouncementsGet

SpecAnnouncements == InitStudents /\ [][NextAnnouncements]_vars

\* CLAIMS

(***************************************************************************)
(* C1.  In every state reachable by register requests, also ones for the   *)
(* same username whose lookup and insert interleave, db.users holds no two *)
(* records with the same username.                                         *)
(***************************************************************************)
C1_UsernameUnique ==
    \A i \in DOMAIN users : \A j \in DOMAIN users :
        i # j => users[i].username # users[j].username

(***************************************************************************)
(* C3.  When a token was issued for a user whose record has since been     *)
(* removed, authenticating with the still-unexpired token fails with the   *)
(* NotFound kind (404), distinct from Unauthorized, and returns no user.   *)
(***************************************************************************)
IssuedFor(token) == {t \in tokens : Some(t.token) = token}

C3_RemovedUserIsNotFound ==
    \A t \in IssuedFor(ev.token) :
        ( /\ ev.op = "get_me"
          /\ FindUserById(t.token.sub) = None
          /\ clock < t.iat + ExpirationTicks )
        => (ev.status = 404 /\ ev.body = None)

(***************************************************************************)
(* C4 as stated.  For a token issued by login at time T to a user that     *)
(* still exists: authentication at any time earlier than T+24h returns     *)
(* that user, authentication at any time later than T+24h fails with       *)
(* "Token has expired" (never "Could not validate credentials", never      *)
(* success), and a token once reported expired is never accepted again.    *)
(***************************************************************************)
ReturnsUser(token) ==
    /\ ev.status = 200
    /\ ev.body = User(FindUserById(token.sub)[1])

FailsExpired ==
    /\ ev.status = 401
    /\ ev.detail = "Token has expired"
    /\ ev.body = None

C4_ExpiresAtTheInstant ==
    \A t \in IssuedFor(ev.token) :
        (ev.op = "get_me" /\ FindUserById(t.token.sub) # None)
        => /\ clock < t.iat + ExpirationTicks => ReturnsUser(t.token)
           /\ clock > t.iat + ExpirationTicks => FailsExpired
           /\ ev.status = 200 => t.token \notin expiredSeen

(***************************************************************************)
(* C4 as amended.  The exp claim is kept in whole seconds: authentication  *)
(* up to one second before T+24h returns the user, authentication from one *)
(* second after T+24h on fails with "Token has expired", in between it     *)
(* does one or the other; it never fails as invalid, and a token once      *)
(* reported expired is never accepted again.                               *)
(***************************************************************************)
C4_ExpiresWithinASecond ==
    \A t \in IssuedFor(ev.token) :
        (ev.op = "get_me" /\ FindUserById(t.token.sub) # None)
        => /\ clock + TicksPerSecond <= t.iat + ExpirationTicks => ReturnsUser(t.token)
           /\ clock >= t.iat + ExpirationTicks + TicksPerSecond => FailsExpired
           /\ ReturnsUser(t.token) \/ FailsExpired
           /\ ev.status = 200 => t.token \notin expiredSeen

C4_Witness ==
    \E t \in IssuedFor(ev.token) :
        /\ ev.op = "get_me"
        /\ FindUserById(t.token.sub) # None
        /\ clock >= t.iat + ExpirationTicks + TicksPerSecond
        /\ FailsExpired
        /\ t.token \in expiredSeen

(***************************************************************************)
(* The roles the guard admits to each handler (spec 4.3).                  *)
(***************************************************************************)
Mutating == {"create_student", "update_student", "delete_student",
             "mark_attendance", "add_grade", "create_announcement"}

AllowList(op) ==
    IF op = "delete_student" THEN {"admin"}
    ELSE IF op \in Mutating THEN {"admin", "teacher"}
    ELSE Roles

\* the step e belongs to a request of an authenticated caller the guard admits
Admitted(e) == e.caller # None /\ e.caller[1].role \in AllowList(e.op)

(***************************************************************************)
(* C2.  A mutating request of an authenticated caller whose role is        *)
(* outside the handler's allow-list is answered 403, and the step that     *)
(* answers it leaves users, students, attendance, grades and announcements *)
(* as they were, whether or not the id it names exists.                    *)
(***************************************************************************)
C2_ForbiddenChangesNothing ==
    [][ (ev'.op \in Mutating /\ ev'.caller # None /\ ~Admitted(ev'))
        => (ev'.status = 403 /\ UNCHANGED collections) ]_vars

C2_Witness ==
    /\ ev.op = "delete_student"
    /\ ev.status = 403
    /\ ev.caller # None
    /\ ev.caller[1].role = "teacher"
    /\ FindStudentById(ev.arg) # None

Visible(role, a) == a.target_role = None \/ a.target_role = Some(role)

C6_AnnouncementVisibility ==
    (ev.op = "get_announcements" /\ ev.status = 200) =>
        LET role == ev.caller[1].role
            returned == Range(ev.body)
            stored == {Announcement(announcements[i]) : i \in DOMAIN announcements}
        IN /\ returned \subseteq stored
           /\ Len(ev.body) <= AnnouncementCap
           /\ role # "admin" => \A a \in returned : Visible(role, a)
           /\ (role # "admin" /\ Len(announcements) <= AnnouncementCap)
                  => \A a \in stored : Visible(role, a) => a \in returned
           /\ (role = "admin" /\ Len(announcements) <= AnnouncementCap)
                  => returned = stored

C6_Witness ==
    /\ ev.op = "get_announcements"
    /\ ev.status = 200
    /\ ev.caller[1].role = "parent"
    /\ \E i \in DOMAIN announcements : announcements[i].target_role = Some("teacher")
    /\ Len(ev.body) = 1
    /\ ev.body[1].target_role = None

(***************************************************************************)
(* C7.  create_student, for an input F from an admin or a teacher, returns *)
(* a Student with the fields of F, an id no other record has and the       *)
(* current time as created_at; and get_student on that id, as long as no   *)
(* update_student or delete_student has written to it, returns that very   *)
(* Student.                                                                *)
(***************************************************************************)
StudentCreateFields ==
    {"full_name", "roll_number", "class_name", "section", "parent_id",
     "date_of_birth", "address", "phone"}

C7_RoundTrip ==
    /\ (ev.op = "create_student" /\ ev.status = 200) =>
           /\ \A f \in StudentCreateFields : ev.body[f] = ev.arg[f]
           /\ Cardinality({i \in DOMAIN students : students[i].id = ev.body.id}) = 1
           /\ ev.body.created_at = clock
           /\ ev.body \in created
    /\ (ev.op = "get_student" /\ ev.caller # None) =>
           \A c \in created : c.id = ev.arg => (ev.status = 200 /\ ev.body = c)

C7_Witness ==
    /\ ev.op = "get_student"
    /\ ev.status = 200
    /\ ev.body \in created
    /\ ev.body.created_at % TicksPerSecond # 0
    /\ ev.body.parent_id # None
    /\ pc[1] = "idle"
    /\ Len(students) > 1

(***************************************************************************)
(* C8.  No step of update_student or delete_student changes a user,        *)
(* attendance, grade or announcement record, so these keep the name and    *)
(* the student_id they were written with when the student is renamed or    *)
(* deleted; and no step of update_student changes a student record's id,   *)
(* user_id or created_at.                                                  *)
(***************************************************************************)
C8_UpdateDeleteFrame ==
    [][ /\ ev'.op \in {"update_student", "delete_student"}
            => UNCHANGED <<users, attendance, grades, announcements>>
        /\ ev'.op = "update_student"
            => /\ Len(students') = Len(students)
               /\ \A i \in DOMAIN students :
                      /\ students'[i].id = students[i].id
                      /\ students'[i].user_id = students[i].user_id
                      /\ students'[i].created_at = students[i].created_at ]_vars

C8_Witness ==
    /\ ev.op = "update_student"
    /\ ev.step = "write"
    /\ \E i \in DOMAIN students : \E j \in DOMAIN attendance :
          /\ students[i].id = ev.arg
          /\ students[i].full_name = "Bea"
          /\ attendance[j].student_id = students[i].id
          /\ attendance[j].student_name = "Ann"

(***************************************************************************)
(* C9 as stated.  Whatever a concurrent delete_student does, an            *)
(* update_student of a caller the guard admits ends with the updated       *)
(* Student (200) or with NotFound (404), never with another failure, and   *)
(* no student record has an id for which delete_student has succeeded.     *)
(***************************************************************************)
C9_UpdateEndsInContract ==
    /\ (ev.op = "update_student" /\ ev.status # 0 /\ Admitted(ev))
           => ev.status \in {200, 404}
    /\ \A i \in DOMAIN students : students[i].id \notin deleted

(***************************************************************************)
(* C10.  Every student record's user_id is the id of a user whose role is  *)
(* admin or teacher, the caller of the create_student that made it; it is  *)
(* never the id of a student-role user; and get_dashboard_stats answers a  *)
(* student-role caller with the empty stats object, whatever attendance    *)
(* and grade records are stored.                                           *)
(***************************************************************************)
C10_StudentDashboardEmpty ==
    /\ \A i \in DOMAIN students : \A j \in DOMAIN users :
           users[j].id = students[i].user_id => users[j].role \in {"admin", "teacher"}
    /\ \A i \in DOMAIN students : \E j \in DOMAIN users :
           users[j].id = students[i].user_id
    /\ (ev.op = "create_student" /\ ev.status = 200)
           => (ev.body.user_id = ev.caller[1].id /\ IsStaff(ev.caller[1]))
    /\ ( /\ ev.op = "get_dashboard_stats"
         /\ ev.caller # None
         /\ ev.caller[1].role = "student" )
           => (ev.status = 200 /\ ev.body = {})

C10_Witness ==
    /\ ev.op = "get_dashboard_stats"
    /\ ev.caller # None
    /\ ev.caller[1].role = "student"
    /\ ev.body = {}
    /\ students # <<>>
    /\ attendance # <<>>

====
